---- MODULE Spec2Model ----
(***************************************************************************)
(* A model of the zakc hash map (src/src/lib/zakc/hashmap.c) and of the    *)
(* zakc vector (vector.c, src/unnamed/part_001).                           *)
(*                                                                         *)
(* The map is modelled at the level of its memory: the bucket array        *)
(* `items`, the item cells it links (key, data, next) and the allocator's  *)
(* view of which cells are allocated.  A call that touches a cell after   *)
(* it has been passed to free() has no defined behaviour: the model marks  *)
(* the call's result UNDEF and follows the program no further.             *)
(***************************************************************************)
EXTENDS Integers, Sequences, FiniteSets, TLC

(***************************************************************************)
(* Bounds of the model.                                                    *)
(***************************************************************************)
\* number of item cells the allocator can hand out
MaxAddr == 3
\* largest capacity a caller passes to hashmap_reserve (a growing insert may
\* double a capacity up to it)
MaxCap == 4
\* value handles are 0 (NULL) .. MaxData
MaxData == 1
\* number of API calls made on one map
MaxCalls == 6
\* largest capacity a vector is grown to, and largest index, capacity or
\* length passed to a vector call
MaxVCap == 4
\* largest length of the vector passed as `other` to vector_extend
MaxOther == 2
\* number of API calls made on one vector
MaxVCalls == 5
\* number of list nodes the allocator can hand out
MaxNodes == 4
\* number of API calls made on one list
MaxLCalls == 5

NULL == 0

\* C's bool
true == 1
false == 0

\* result of a call that never returns (a walk over a cyclic chain)
HANG == -1
\* result of a call whose behaviour the C standard leaves undefined: it reads,
\* writes or frees a cell that has been freed, or computes hash % 0
UNDEF == -2

Addr == 1..MaxAddr
Ptr == Addr \cup {NULL}
Data == 0..MaxData

(***************************************************************************)
(* Keys.  A key handle is a pointer to a C string; KeyText gives the bytes *)
(* the handle points to.  The handles are "foo", "bar", "baz", "a" (the    *)
(* keys of the documentation test plus one), all of at most 3 bytes.       *)
(***************************************************************************)
KeyText == << <<102, 111, 111>>, <<98, 97, 114>>, <<98, 97, 122>>, <<97>> >>

KeyHandles == 1..Len(KeyText)

RECURSIVE Xor(_, _)
Xor(a, b) ==
    IF a = 0 THEN b
    ELSE IF b = 0 THEN a
    ELSE (((a % 2) + (b % 2)) % 2) + 2 * Xor(a \div 2, b \div 2)

\* hash = ((hash << 5) + hash) ^ c, from 5381, over the bytes of the string.
\* For strings of at most 3 bytes the value stays below 2^28, so the u64
\* arithmetic of the source never wraps.
RECURSIVE str_hash_from(_, _, _)
str_hash_from(hash, str, i) ==
    IF i > Len(str) THEN hash
    ELSE str_hash_from(Xor(hash * 32 + hash, str[i]), str, i + 1)

str_hash(key) == str_hash_from(5381, KeyText[key], 1)

\* !strcmp(left, right): equality of the strings' contents
str_cmp(left, right) == KeyText[left] = KeyText[right]

\* the map's policy, as installed by hashmap_new(str_hash, str_cmp)
HashTable == [k \in KeyHandles |-> str_hash(k)]
hash(key) == HashTable[key]
cmp(left, right) == str_cmp(left, right)

(***************************************************************************)
(* State.                                                                  *)
(***************************************************************************)
VARIABLES
    map,      \* struct hashmap: items (bucket heads), isNull (items == NULL),
              \* capacity, nitems
    heap,     \* contents of the item cells: [key, data, next]
    live,     \* cells returned by malloc and not yet passed to free
    status,   \* "ok", "hung", "undefined" or "dropped"
    last,     \* the last call: op, its key or capacity argument, and result
    ref,      \* reference map: key -> value of its last insert, or Absent
    calls,    \* number of API calls made so far
    vec,      \* struct vector: data (isNull, freed, buf), capacity, len
    vstatus,  \* "ok" or "undefined"
    vlast,    \* the last vector call: op, index/capacity/length argument,
              \* payload, the vector passed as `other`, and result
    vref,     \* the payloads appended so far, in order (append-only runs)
    vcalls,   \* number of vector API calls made so far
    list,     \* struct list: head, tail, len
    nodes,    \* contents of the list nodes: [prev, next, data]
    nlive,    \* nodes returned by malloc and not yet passed to free
    lstatus,  \* "ok", "hung", "undefined" or "dropped"
    llast,    \* the last list call: op, index argument, payload and result
    lref,     \* reference sequence: the payloads the list should hold
    lcalls    \* number of list API calls made so far

\* the hash map and its bookkeeping
hvars == <<map, heap, live, status, last, ref, calls>>

\* the vector and its bookkeeping
vvars == <<vec, vstatus, vlast, vref, vcalls>>

\* the linked list and its bookkeeping
lvars == <<list, nodes, nlive, lstatus, llast, lref, lcalls>>

vars == <<map, heap, live, status, last, ref, calls,
          vec, vstatus, vlast, vref, vcalls,
          list, nodes, nlive, lstatus, llast, lref, lcalls>>

Absent == -3

ZeroCell == [key |-> 1, data |-> NULL, next |-> NULL]

Cells == [key : KeyHandles, data : Data, next : Ptr]

\* items[i] of the source is items[i + 1] here
Bucket(m, i) == m.items[i + 1]

SetBucket(m, i, p) == [m EXCEPT !.items[i + 1] = p]

\* the cells some chain of the bucket array links
RECURSIVE ReachFrom(_, _, _)
ReachFrom(h, frontier, seen) ==
    IF frontier = {} THEN seen
    ELSE LET nxt == {h[a].next : a \in frontier} \ ({NULL} \cup seen \cup frontier)
         IN ReachFrom(h, nxt, seen \cup frontier)

Linked(m, h) ==
    ReachFrom(h, {m.items[i] : i \in 1..Len(m.items)} \ {NULL}, {})

\* The cells in the order in which a walk over the buckets first meets them
RECURSIVE VisitChain(_, _, _)
VisitChain(h, item, acc) ==
    IF item = NULL \/ \E i \in 1..Len(acc) : acc[i] = item THEN acc
    ELSE VisitChain(h, h[item].next, Append(acc, item))

RECURSIVE VisitFrom(_, _, _, _)
VisitFrom(m, h, i, acc) ==
    IF i > Len(m.items) THEN acc
    ELSE VisitFrom(m, h, i + 1, VisitChain(h, m.items[i], acc))

RECURSIVE Ascending(_)
Ascending(S) ==
    IF S = {} THEN <<>>
    ELSE LET a == CHOOSE x \in S : \A y \in S : x <= y
         IN <<a>> \o Ascending(S \ {a})

\* The address of a cell means nothing to the program, and a cell that no
\* chain links is never read before malloc hands it out and the caller
\* initialises it.  States are kept up to a renaming of the cells: linked
\* cells first, in walk order, then the allocated cells that no chain links
\* (leaked), then the others; cells that no chain links hold ZeroCell.
Canon(m, h, lv) ==
    LET linked == VisitFrom(m, h, 1, <<>>)
        l == {linked[i] : i \in 1..Len(linked)}
        order == linked \o Ascending(lv \ l) \o Ascending(Addr \ (lv \cup l))
        rank(a) == IF a = NULL THEN NULL ELSE CHOOSE i \in Addr : order[i] = a
    IN  [m |-> [m EXCEPT !.items = [i \in 1..Len(m.items) |-> rank(m.items[i])]],
         h |-> [b \in Addr |->
                  IF b <= Len(linked)
                  THEN [h[order[b]] EXCEPT !.next = rank(@)]
                  ELSE ZeroCell],
         lv |-> {rank(a) : a \in lv}]

(***************************************************************************)
(* Outcome of a call: the map, heap and allocated cells it leaves, what it *)
(* returns, whether it returned at all (st), and the cell it unlinked or   *)
(* stored into.                                                            *)
(***************************************************************************)
Outcome(m, h, lv, ret, st) ==
    [m |-> m, h |-> h, lv |-> lv, ret |-> ret, st |-> st, cell |-> NULL]

Hung(o) == [o EXCEPT !.st = "hung", !.ret = HANG]

Undefined(o) == [o EXCEPT !.st = "undefined", !.ret = UNDEF]

\* free(p): free(NULL) does nothing; freeing a cell that is not allocated
\* (a second free of the same cell) is undefined.
free(o, p) ==
    IF p = NULL \/ o.st # "ok" THEN o
    ELSE IF p \in o.lv THEN [o EXCEPT !.lv = @ \ {p}]
    ELSE Undefined(o)

(***************************************************************************)
(* hashmap_reserve                                                         *)
(***************************************************************************)
\* The inner loop of the rehash (hashmap.c:378-387) over one old chain.
\* `seen` holds the loop states already passed through: the loop is
\* deterministic, so passing through one twice means it never ends.
RECURSIVE RehashChain(_, _, _, _, _, _)
RehashChain(h, lv, items, item, capacity, seen) ==
    IF item = NULL THEN [h |-> h, items |-> items, st |-> "ok"]
    ELSE IF capacity = 0 \/ item \notin lv
    THEN [h |-> h, items |-> items, st |-> "undefined"]
    ELSE IF <<h, items, item>> \in seen
    THEN [h |-> h, items |-> items, st |-> "hung"]
    ELSE LET hashv == hash(h[item].key) % capacity
             tmp == h[item].next
         IN RehashChain([h EXCEPT ![item].next = items[hashv + 1]], lv,
                        [items EXCEPT ![hashv + 1] = item],
                        tmp, capacity, seen \cup {<<h, items, item>>})

\* The outer loop (hashmap.c:376-388) over the old buckets i, i+1, ...
RECURSIVE Rehash(_, _, _, _, _, _)
Rehash(m, h, lv, items, capacity, i) ==
    IF i >= m.capacity THEN [h |-> h, items |-> items, st |-> "ok"]
    ELSE LET r == RehashChain(h, lv, items, Bucket(m, i), capacity, {})
         IN IF r.st # "ok" THEN r
            ELSE Rehash(m, r.h, lv, r.items, capacity, i + 1)

\* hashmap_reserve without the early return of hashmap.c:367-368
hashmap_reserve_NoEarlyReturn(m, h, lv, capacity, callocOk) ==
    IF ~callocOk THEN Outcome(m, h, lv, false, "ok")
    ELSE LET r == Rehash(m, h, lv, [i \in 1..capacity |-> NULL], capacity, 0)
         IN IF r.st = "hung" THEN Hung(Outcome(m, h, lv, 0, "ok"))
            ELSE IF r.st = "undefined" THEN Undefined(Outcome(m, h, lv, 0, "ok"))
            ELSE Outcome([m EXCEPT !.capacity = capacity, !.items = r.items,
                                   !.isNull = FALSE],
                         r.h, lv, true, "ok")

\* callocOk: calloc returned a non-NULL pointer.  For capacity = 0 the
\* allocator may answer either way even when memory is available.
hashmap_reserve(m, h, lv, capacity, callocOk) ==
    IF capacity < m.nitems THEN Outcome(m, h, lv, true, "ok")
    ELSE IF ~callocOk THEN Outcome(m, h, lv, false, "ok")
    ELSE LET r == Rehash(m, h, lv, [i \in 1..capacity |-> NULL], capacity, 0)
         IN IF r.st = "hung" THEN Hung(Outcome(m, h, lv, 0, "ok"))
            ELSE IF r.st = "undefined" THEN Undefined(Outcome(m, h, lv, 0, "ok"))
            ELSE Outcome([m EXCEPT !.capacity = capacity, !.items = r.items,
                                   !.isNull = FALSE],
                         r.h, lv, true, "ok")

(***************************************************************************)
(* Chain walks of insert, contains and get                                 *)
(***************************************************************************)
\* while (item && !map->cmp(item->key, key)) item = item->next;
\* yields the cell found, NULL, HANG on a chain that is a cycle, or UNDEF.
RECURSIVE FindItem(_, _, _, _, _)
FindItem(h, lv, item, key, seen) ==
    IF item = NULL THEN NULL
    ELSE IF item \notin lv THEN UNDEF
    ELSE IF item \in seen THEN HANG
    ELSE IF cmp(h[item].key, key) THEN item
    ELSE FindItem(h, lv, h[item].next, key, seen \cup {item})

\* hashmap.c:273-281
RECURSIVE ContainsWalk(_, _, _, _, _)
ContainsWalk(h, lv, item, key, seen) ==
    IF item = NULL THEN false
    ELSE IF item \notin lv THEN UNDEF
    ELSE IF item \in seen THEN HANG
    ELSE IF cmp(h[item].key, key) THEN true
    ELSE ContainsWalk(h, lv, h[item].next, key, seen \cup {item})

\* hashmap.c:262-282
hashmap_contains(m, h, lv, key) ==
    IF m.isNull THEN false
    ELSE IF m.capacity = 0 THEN UNDEF
    ELSE ContainsWalk(h, lv, Bucket(m, hash(key) % m.capacity), key, {})

\* the walk of hashmap_get started at the second cell of the chain
RECURSIVE GetWalk_SkipHead(_, _, _, _, _)
GetWalk_SkipHead(h, lv, item, key, seen) ==
    IF item = NULL THEN NULL
    ELSE IF item \notin lv THEN UNDEF
    ELSE IF item \in seen THEN HANG
    ELSE IF seen # {} /\ cmp(h[item].key, key) THEN h[item].data
    ELSE GetWalk_SkipHead(h, lv, h[item].next, key, seen \cup {item})

\* hashmap.c:306-314
RECURSIVE GetWalk(_, _, _, _, _)
GetWalk(h, lv, item, key, seen) ==
    IF item = NULL THEN NULL
    ELSE IF item \notin lv THEN UNDEF
    ELSE IF item \in seen THEN HANG
    ELSE IF cmp(h[item].key, key) THEN h[item].data
    ELSE GetWalk(h, lv, h[item].next, key, seen \cup {item})

\* hashmap.c:295-315
hashmap_get(m, h, lv, key) ==
    IF m.isNull THEN NULL
    ELSE IF m.capacity = 0 THEN UNDEF
    ELSE GetWalk(h, lv, Bucket(m, hash(key) % m.capacity), key, {})

hashmap_capacity(m) == m.capacity

hashmap_len(m) == m.nitems

(***************************************************************************)
(* hashmap_insert                                                          *)
(***************************************************************************)
\* InsertStore with the new item's next left NULL instead of the old head
InsertStore_NoChain(o, item, index, key, data, mallocOk, addr) ==
    IF item # NULL
    THEN [o EXCEPT !.h[item].data = data, !.ret = true, !.cell = item]
    ELSE IF ~mallocOk THEN [o EXCEPT !.ret = false]
    ELSE [o EXCEPT !.h[addr] = [key |-> key, data |-> data, next |-> NULL],
                   !.lv = @ \cup {addr},
                   !.m = [SetBucket(o.m, index, addr) EXCEPT !.nitems = @ + 1],
                   !.ret = true,
                   !.cell = addr]

\* hashmap.c:174-193, after the walk has left `item` and the index is final.
\* mallocOk and addr are malloc's answer: a cell that is not allocated.
InsertStore(o, item, index, key, data, mallocOk, addr) ==
    IF item # NULL
    THEN [o EXCEPT !.h[item].data = data, !.ret = true, !.cell = item]
    ELSE IF ~mallocOk THEN [o EXCEPT !.ret = false]
    ELSE [o EXCEPT !.h[addr] = [key |-> key, data |-> data,
                                 next |-> Bucket(o.m, index)],
                   !.lv = @ \cup {addr},
                   !.m = [SetBucket(o.m, index, addr) EXCEPT !.nitems = @ + 1],
                   !.ret = true,
                   !.cell = addr]

\* InsertGrow growing only when the table is full (nitems + 1 > capacity)
InsertGrow_WhenFull(o, key, data, callocOk, mallocOk, addr) ==
    IF o.m.capacity = 0 THEN Undefined(o)
    ELSE
    LET item == FindItem(o.h, o.lv, Bucket(o.m, hash(key) % o.m.capacity), key, {})
    IN  IF item = HANG THEN Hung(o)
        ELSE IF item = UNDEF THEN Undefined(o)
        ELSE IF o.m.nitems + 1 > o.m.capacity
        THEN LET r == hashmap_reserve(o.m, o.h, o.lv,
                                      IF o.m.capacity = 0 THEN 1 ELSE o.m.capacity * 2,
                                      callocOk)
             IN IF r.st # "ok" \/ r.ret = false THEN r
                ELSE InsertStore(r, item, hash(key) % r.m.capacity, key, data,
                                 mallocOk, addr)
        ELSE InsertStore(o, item, hash(key) % o.m.capacity, key, data,
                         mallocOk, addr)

\* hashmap.c:155-172: the walk, then the growth, then the new index
InsertGrow(o, key, data, callocOk, mallocOk, addr) ==
    IF o.m.capacity = 0 THEN Undefined(o)
    ELSE
    LET item == FindItem(o.h, o.lv, Bucket(o.m, hash(key) % o.m.capacity), key, {})
    IN  IF item = HANG THEN Hung(o)
        ELSE IF item = UNDEF THEN Undefined(o)
        ELSE IF 5 * (o.m.nitems + 1) > 4 * o.m.capacity
        THEN LET r == hashmap_reserve(o.m, o.h, o.lv,
                                      IF o.m.capacity = 0 THEN 1 ELSE o.m.capacity * 2,
                                      callocOk)
             IN IF r.st # "ok" \/ r.ret = false THEN r
                ELSE InsertStore(r, item, hash(key) % r.m.capacity, key, data,
                                 mallocOk, addr)
        ELSE InsertStore(o, item, hash(key) % o.m.capacity, key, data,
                         mallocOk, addr)

\* callocOk1: the calloc of the first reserve (hashmap.c:151);
\* callocOk2: the calloc of the growth (hashmap.c:167)
hashmap_insert(m, h, lv, key, data, callocOk1, callocOk2, mallocOk, addr) ==
    IF m.isNull
    THEN LET r == hashmap_reserve(m, h, lv, 1, callocOk1)
         IN IF r.st # "ok" \/ r.ret = false THEN r
            ELSE InsertGrow(r, key, data, callocOk2, mallocOk, addr)
    ELSE InsertGrow(Outcome(m, h, lv, true, "ok"), key, data, callocOk2,
                    mallocOk, addr)

(***************************************************************************)
(* hashmap_remove                                                          *)
(***************************************************************************)
\* hashmap.c:234-249: the walk over the pairs (item, item->next).  It unlinks
\* item->next when its key matches, and then frees what item->next is after
\* the unlinking.
RECURSIVE RemoveWalk(_, _, _, _)
RemoveWalk(o, item, key, seen) ==
    IF item = NULL THEN [o EXCEPT !.ret = NULL]
    ELSE IF item \notin o.lv THEN Undefined(o)
    ELSE IF o.h[item].next = NULL THEN [o EXCEPT !.ret = NULL]
    ELSE IF item \in seen THEN Hung(o)
    ELSE LET nxt == o.h[item].next
         IN IF nxt \notin o.lv THEN Undefined(o)
            ELSE IF cmp(o.h[nxt].key, key)
            THEN LET data == o.h[nxt].data
                     o1 == [o EXCEPT !.h[item].next = o.h[nxt].next]
                     o2 == free(o1, o1.h[item].next)
                 IN IF o2.st # "ok" THEN o2
                    ELSE [o2 EXCEPT !.m.nitems = @ - 1, !.ret = data, !.cell = nxt]
            ELSE RemoveWalk(o, nxt, key, seen \cup {item})

\* hashmap.c:210-253
hashmap_remove(m, h, lv, key) ==
    LET o == Outcome(m, h, lv, NULL, "ok")
    IN  IF m.isNull THEN o
        ELSE IF m.capacity = 0 THEN Undefined(o)
        ELSE LET index == hash(key) % m.capacity
                 item == Bucket(m, index)
             IN IF item # NULL /\ item \notin lv THEN Undefined(o)
                ELSE IF item # NULL /\ cmp(h[item].key, key)
                THEN LET data == h[item].data
                         o1 == [o EXCEPT !.m = SetBucket(m, index, h[item].next)]
                         o2 == free(o1, item)
                     IN IF o2.st # "ok" THEN o2
                        ELSE [o2 EXCEPT !.m.nitems = @ - 1, !.ret = data, !.cell = item]
                ELSE RemoveWalk(o, item, key, {})

(***************************************************************************)
(* hashmap_iter                                                            *)
(***************************************************************************)
\* hashmap.c:418-422: the calls callback(key, data, context) made for one
\* chain, in order; "hung" when the chain is a cycle (the calls never end)
RECURSIVE IterChain(_, _, _, _)
IterChain(h, lv, item, seen) ==
    IF item = NULL THEN [st |-> "ok", calls |-> <<>>]
    ELSE IF item \notin lv THEN [st |-> "undefined", calls |-> <<>>]
    ELSE IF item \in seen THEN [st |-> "hung", calls |-> <<>>]
    ELSE LET r == IterChain(h, lv, h[item].next, seen \cup {item})
         IN [st |-> r.st,
             calls |-> <<[key |-> h[item].key, data |-> h[item].data]>> \o r.calls]

\* hashmap.c:416-423: buckets i, i+1, ..., capacity-1
RECURSIVE IterFrom(_, _, _, _)
IterFrom(m, h, lv, i) ==
    IF i >= m.capacity THEN [st |-> "ok", calls |-> <<>>]
    ELSE LET c == IterChain(h, lv, Bucket(m, i), {})
             r == IterFrom(m, h, lv, i + 1)
         IN IF c.st # "ok" THEN c
            ELSE [st |-> r.st, calls |-> c.calls \o r.calls]

hashmap_iter(m, h, lv) == IterFrom(m, h, lv, 0)

(***************************************************************************)
(* hashmap_drop                                                            *)
(***************************************************************************)
\* hashmap.c:120-124 for one chain: free every cell the chain links
RECURSIVE DropChain(_, _)
DropChain(o, item) ==
    IF item = NULL \/ o.st # "ok" THEN o
    ELSE IF item \notin o.lv THEN Undefined(o)
    ELSE DropChain(free(o, item), o.h[item].next)

RECURSIVE DropFrom(_, _)
DropFrom(o, i) ==
    IF i >= o.m.capacity \/ o.st # "ok" THEN o
    ELSE DropFrom(DropChain(o, Bucket(o.m, i)), i + 1)

hashmap_drop(m, h, lv) == DropFrom(Outcome(m, h, lv, NULL, "ok"), 0)

(***************************************************************************)
(* The vector (vector.c).  `buf` is the block vec->data points to, one     *)
(* entry per element slot; data[i] of the source is buf[i + 1].  isNull    *)
(* says data == NULL; freed says data points to a block that realloc has   *)
(* released.  A slot that realloc added and nothing wrote yet holds Uninit:*)
(* reading it yields an arbitrary handle.  An access outside the block, or *)
(* to a released block, has no defined behaviour.                          *)
(***************************************************************************)
Uninit == -4

NewVec == [isNull |-> TRUE, freed |-> FALSE, buf |-> <<>>, capacity |-> 0, len |-> 0]

VOutcome(v, ret, st) == [v |-> v, ret |-> ret, st |-> st]

VUndefined(v) == VOutcome(v, UNDEF, "undefined")

\* data[i] lies inside the block data points to
InBlock(v, i) == ~v.isNull /\ ~v.freed /\ i >= 0 /\ i < Len(v.buf)

\* the value a read of data[i] yields; junk is what an unwritten slot holds
ReadSlot(v, i, junk) == IF v.buf[i + 1] = Uninit THEN junk ELSE v.buf[i + 1]

\* realloc's possible answers.  For a size of 0 and a non-NULL block the
\* allocator may release the block and return NULL ("freed"), return a block
\* of no slots ("ok") or fail ("null").
ReallocAnswers(v, capacity) ==
    IF capacity = 0 /\ ~v.isNull THEN {"ok", "null", "freed"} ELSE {"ok", "null"}

\* vector.c:344-364.  ra is realloc's answer when the call reaches it.
vector_reserve(v, capacity, ra) ==
    IF capacity < v.len THEN VOutcome(v, false, "ok")
    ELSE IF capacity = v.capacity THEN VOutcome(v, true, "ok")
    ELSE IF v.freed THEN VUndefined(v)
    ELSE IF ra = "null" THEN VOutcome(v, false, "ok")
    ELSE IF ra = "freed"
    THEN VOutcome([v EXCEPT !.freed = TRUE, !.buf = <<>>], false, "ok")
    ELSE VOutcome([v EXCEPT !.capacity = capacity,
                            !.isNull = FALSE,
                            !.buf = [i \in 1..capacity |->
                                        IF i <= Len(v.buf) THEN v.buf[i] ELSE Uninit]],
                  true, "ok")

\* memset(&data[from], 0, (to - from) * sizeof(void *))
ZeroFill(v, from, to) ==
    [v EXCEPT !.buf = [i \in 1..Len(v.buf) |->
                          IF i > from /\ i <= to THEN NULL ELSE v.buf[i]]]

\* vector.c:393-408
vector_resize(v, len, ra) ==
    LET r == IF len > v.capacity THEN vector_reserve(v, len, ra)
             ELSE VOutcome(v, true, "ok")
    IN  IF r.st # "ok" \/ r.ret = false THEN r
        ELSE IF len > r.v.len
        THEN IF \A i \in r.v.len..(len - 1) : InBlock(r.v, i)
             THEN VOutcome([ZeroFill(r.v, r.v.len, len) EXCEPT !.len = len], true, "ok")
             ELSE VUndefined(r.v)
        ELSE VOutcome([r.v EXCEPT !.len = len], true, "ok")

\* vector.c:373-379
vector_shrink_to_fit(v) ==
    IF v.len = 0 THEN VOutcome(v, false, "ok")
    ELSE vector_resize(v, v.len, "none")

\* vector_append growing the capacity by one slot instead of doubling it
vector_append_GrowByOne(v, data, ra) ==
    LET r == IF v.len + 1 > v.capacity
             THEN vector_reserve(v, v.capacity + 1, ra)
             ELSE VOutcome(v, true, "ok")
    IN  IF r.st # "ok" \/ r.ret = false THEN r
        ELSE IF ~InBlock(r.v, r.v.len) THEN VUndefined(r.v)
        ELSE VOutcome([r.v EXCEPT !.buf[r.v.len + 1] = data, !.len = @ + 1],
                      true, "ok")

\* vector.c:72-86
vector_append(v, data, ra) ==
    LET r == IF v.len + 1 > v.capacity
             THEN vector_reserve(v, IF v.capacity = 0 THEN 1 ELSE v.capacity * 2, ra)
             ELSE VOutcome(v, true, "ok")
    IN  IF r.st # "ok" \/ r.ret = false THEN r
        ELSE IF ~InBlock(r.v, r.v.len) THEN VUndefined(r.v)
        ELSE VOutcome([r.v EXCEPT !.buf[r.v.len + 1] = data, !.len = @ + 1],
                      true, "ok")

\* vector.c:106-107: data[len + i] = other->data[i] for i = i, i+1, ...;
\* when `other` is the vector itself the element is read from its own block
RECURSIVE ExtendCopy(_, _, _, _)
ExtendCopy(v, other, self, i) ==
    IF i >= other.len THEN VOutcome(v, true, "ok")
    ELSE IF ~InBlock(v, v.len + i) THEN VUndefined(v)
    ELSE ExtendCopy([v EXCEPT !.buf[v.len + i + 1] =
                                 IF self THEN v.buf[i + 1] ELSE other.elems[i + 1]],
                    other, self, i + 1)

\* vector.c:98-112.  other = [isNull, elems, len]; self: other is vec itself.
\* The result of vector_reserve is not looked at.
vector_extend(v, other, self, ra) ==
    IF v.isNull \/ other.isNull THEN VOutcome(v, false, "ok")
    ELSE LET r == IF v.len + other.len > v.capacity
                  THEN vector_reserve(v, v.len + other.len, ra)
                  ELSE VOutcome(v, true, "ok")
         IN IF r.st # "ok" THEN r
            ELSE LET c == ExtendCopy(r.v, other, self, 0)
                 IN IF c.st # "ok" THEN c
                    ELSE VOutcome([c.v EXCEPT !.len = @ + other.len], true, "ok")

\* vector.c:134-135 and 204-205, after the length was reduced: the call
\* vector_resize(vec, capacity / 2), whose result is not looked at
ShrinkAfter(v) ==
    IF v.len < v.capacity \div 2 /\ v.capacity > 1
    THEN vector_resize(v, v.capacity \div 2, "none").v
    ELSE v

\* vector.c:125-138
vector_pop(v) ==
    IF v.len = 0 THEN VOutcome(v, NULL, "ok")
    ELSE IF ~InBlock(v, v.len - 1) THEN VUndefined(v)
    ELSE VOutcome(ShrinkAfter([v EXCEPT !.len = @ - 1]), v.buf[v.len], "ok")

\* vector.c:168-169: data[i] = data[i - 1] for i = len, len - 1, ..., index + 1
RECURSIVE ShiftRight(_, _, _)
ShiftRight(v, i, index) ==
    IF i <= index THEN VOutcome(v, true, "ok")
    ELSE IF ~InBlock(v, i) \/ ~InBlock(v, i - 1) THEN VUndefined(v)
    ELSE ShiftRight([v EXCEPT !.buf[i + 1] = v.buf[i]], i - 1, index)

\* vector.c:157-176
vector_insert(v, index, data, ra) ==
    IF index > v.len THEN VOutcome(v, false, "ok")
    ELSE LET r == IF v.len = v.capacity
                  THEN vector_reserve(v, IF v.capacity = 0 THEN 1 ELSE v.capacity * 2, ra)
                  ELSE VOutcome(v, true, "ok")
         IN IF r.st # "ok" \/ r.ret = false THEN r
            ELSE LET s == ShiftRight(r.v, r.v.len, index)
                 IN IF s.st # "ok" THEN s
                    ELSE IF ~InBlock(s.v, index) THEN VUndefined(s.v)
                    ELSE VOutcome([s.v EXCEPT !.buf[index + 1] = data, !.len = @ + 1],
                                  true, "ok")

\* vector.c:199-200: data[i] = data[i + 1] for i = i, i + 1, ..., len - 2
RECURSIVE ShiftLeft(_, _)
ShiftLeft(v, i) ==
    IF i >= v.len - 1 THEN VOutcome(v, true, "ok")
    ELSE IF ~InBlock(v, i) \/ ~InBlock(v, i + 1) THEN VUndefined(v)
    ELSE ShiftLeft([v EXCEPT !.buf[i + 1] = v.buf[i + 2]], i + 1)

\* vector.c:191-208.  The index is not compared with len.
vector_remove(v, index, junk) ==
    IF v.isNull \/ v.len = 0 THEN VOutcome(v, NULL, "ok")
    ELSE IF ~InBlock(v, index) THEN VUndefined(v)
    ELSE LET removed == ReadSlot(v, index, junk)
             s == ShiftLeft(v, index)
         IN IF s.st # "ok" THEN s
            ELSE VOutcome(ShrinkAfter([s.v EXCEPT !.len = @ - 1]), removed, "ok")

\* vector.c:217-228
vector_contains(v, data) ==
    IF v.len > 0 /\ (v.isNull \/ v.freed) THEN UNDEF
    ELSE IF \E i \in 0..(v.len - 1) : InBlock(v, i) /\ v.buf[i + 1] = data THEN true
    ELSE false

\* vector.c:240-247
vector_get(v, index) ==
    IF v.isNull \/ index >= v.len THEN NULL
    ELSE IF ~InBlock(v, index) THEN UNDEF
    ELSE v.buf[index + 1]

\* vector.c:260-271
vector_set(v, index, data) ==
    IF index >= v.len THEN VOutcome(v, false, "ok")
    ELSE IF ~InBlock(v, index) THEN VUndefined(v)
    ELSE VOutcome([v EXCEPT !.buf[index + 1] = data], true, "ok")

vector_capacity(v) == v.capacity

vector_len(v) == v.len

vector_is_empty(v) == IF v.len = 0 THEN true ELSE false

(***************************************************************************)
(* The linked list (list.c; the line numbers are those of the file that    *)
(* holds vector.c and list.c one after the other).  A node is an address   *)
(* in NodeAddr; h gives the contents of the nodes and lv the nodes that    *)
(* are allocated.  Reading or writing a field through NULL or through a    *)
(* pointer to a node that was freed has no defined behaviour.  An outcome  *)
(* is the list, the nodes and the allocated nodes a call leaves, what it   *)
(* returns and whether it returned at all.                                 *)
(***************************************************************************)
NodeAddr == 1..MaxNodes

NodePtr == NodeAddr \cup {NULL}

ZeroNode == [prev |-> NULL, next |-> NULL, data |-> NULL]

NewList == [head |-> NULL, tail |-> NULL, len |-> 0]

LOutcome(l, h, lv, ret, st) == [l |-> l, h |-> h, lv |-> lv, ret |-> ret, st |-> st]

\* p->next = q
SetNext(o, p, q) ==
    IF o.st # "ok" THEN o
    ELSE IF p \notin o.lv THEN Undefined(o)
    ELSE [o EXCEPT !.h[p].next = q]

\* p->prev = q
SetPrev(o, p, q) ==
    IF o.st # "ok" THEN o
    ELSE IF p \notin o.lv THEN Undefined(o)
    ELSE [o EXCEPT !.h[p].prev = q]

\* `for (i = 0; i < index; i++) node = node->next`: the node the walk ends
\* at (NULL and a freed node included), or UNDEF when a step reads through
\* NULL or a freed node
RECURSIVE NodeAt(_, _, _, _)
NodeAt(h, lv, node, index) ==
    IF index = 0 THEN node
    ELSE IF node \notin lv THEN UNDEF
    ELSE NodeAt(h, lv, h[node].next, index - 1)

\* list.c:493-522.  node is the address malloc returns when it succeeds.
list_append(l, h, lv, data, mallocOk, node) ==
    IF ~mallocOk THEN LOutcome(l, h, lv, false, "ok")
    ELSE LET o0 == LOutcome(l, [h EXCEPT ![node] = [prev |-> l.tail, next |-> NULL,
                                                    data |-> data]],
                            lv \cup {node}, true, "ok")
             o1 == IF l.tail # NULL THEN SetNext(o0, l.tail, node) ELSE o0
         IN IF o1.st # "ok" THEN o1
            ELSE [o1 EXCEPT !.l = [head |-> IF l.head = NULL THEN node ELSE l.head,
                                   tail |-> node,
                                   len |-> l.len + 1]]

\* list.c:531-561
list_prepend(l, h, lv, data, mallocOk, node) ==
    IF ~mallocOk THEN LOutcome(l, h, lv, false, "ok")
    ELSE LET o0 == LOutcome(l, [h EXCEPT ![node] = [prev |-> NULL, next |-> l.head,
                                                    data |-> data]],
                            lv \cup {node}, true, "ok")
             o1 == IF l.head # NULL THEN SetPrev(o0, l.head, node) ELSE o0
         IN IF o1.st # "ok" THEN o1
            ELSE [o1 EXCEPT !.l = [head |-> node,
                                   tail |-> IF l.tail = NULL THEN node ELSE l.tail,
                                   len |-> l.len + 1]]

\* list.c:570-591
list_pop(l, h, lv) ==
    IF l.tail = NULL THEN LOutcome(l, h, lv, NULL, "ok")
    ELSE IF l.tail \notin lv THEN Undefined(LOutcome(l, h, lv, NULL, "ok"))
    ELSE LET lastnode == l.tail
             tail == h[lastnode].prev
             o0 == LOutcome([l EXCEPT !.tail = tail,
                                      !.head = IF tail = NULL THEN NULL ELSE @],
                            h, lv, h[lastnode].data, "ok")
             o1 == IF tail # NULL THEN SetNext(o0, tail, NULL) ELSE o0
             o2 == free(o1, lastnode)
         IN IF o2.st # "ok" THEN o2 ELSE [o2 EXCEPT !.l.len = @ - 1]

\* list.c:600-621
list_shift(l, h, lv) ==
    IF l.head = NULL THEN LOutcome(l, h, lv, NULL, "ok")
    ELSE IF l.head \notin lv THEN Undefined(LOutcome(l, h, lv, NULL, "ok"))
    ELSE LET first == l.head
             head == h[first].next
             o0 == LOutcome([l EXCEPT !.head = head,
                                      !.tail = IF head = NULL THEN NULL ELSE @],
                            h, lv, h[first].data, "ok")
             o1 == IF head # NULL THEN SetPrev(o0, head, NULL) ELSE o0
             o2 == free(o1, first)
         IN IF o2.st # "ok" THEN o2 ELSE [o2 EXCEPT !.l.len = @ - 1]

\* list.c:648-653: the branch for index == 0
InsertFront(o, node) ==
    LET o1 == [o EXCEPT !.h[node].next = o.l.head]
        o2 == IF o.l.head # NULL THEN SetPrev(o1, o.l.head, node) ELSE o1
    IN IF o2.st # "ok" THEN o2 ELSE [o2 EXCEPT !.l.head = node]

\* list.c:654-659: the branch for index == len
InsertBack(o, node) ==
    LET o1 == [o EXCEPT !.h[node].prev = o.l.tail]
        o2 == IF o.l.tail # NULL THEN SetNext(o1, o.l.tail, node) ELSE o1
    IN IF o2.st # "ok" THEN o2 ELSE [o2 EXCEPT !.l.tail = node]

\* list.c:666-670: the new node goes between curr->prev and curr
InsertBefore(o, node, curr) ==
    IF curr \notin o.lv THEN Undefined(o)
    ELSE LET o1 == [o EXCEPT !.h[node].prev = o.h[curr].prev]
             o2 == [o1 EXCEPT !.h[node].next = curr]
             o3 == SetNext(o2, o2.h[curr].prev, node)
         IN SetPrev(o3, curr, node)

\* list.c:631-677
list_insert(l, h, lv, index, data, mallocOk, node) ==
    IF index > l.len THEN LOutcome(l, h, lv, false, "ok")
    ELSE IF ~mallocOk THEN LOutcome(l, h, lv, false, "ok")
    ELSE LET o0 == LOutcome(l, [h EXCEPT ![node] = [prev |-> NULL, next |-> NULL,
                                                    data |-> data]],
                            lv \cup {node}, true, "ok")
             o1 == IF index = 0 THEN InsertFront(o0, node)
                   ELSE IF index = l.len THEN InsertBack(o0, node)
                   ELSE InsertBefore(o0, node, NodeAt(o0.h, o0.lv, l.head, index))
         IN IF o1.st # "ok" THEN o1 ELSE [o1 EXCEPT !.l.len = @ + 1]

\* list.c:687-713
list_remove(l, h, lv, index) ==
    IF index >= l.len THEN LOutcome(l, h, lv, NULL, "ok")
    ELSE LET node == NodeAt(h, lv, l.head, index)
         IN IF node \notin lv THEN Undefined(LOutcome(l, h, lv, NULL, "ok"))
            ELSE LET o0 == LOutcome(l, h, lv, h[node].data, "ok")
                     o1 == IF o0.h[node].prev # NULL
                           THEN SetNext(o0, o0.h[node].prev, o0.h[node].next)
                           ELSE [o0 EXCEPT !.l.head = o0.h[node].next]
                     o2 == IF o1.st # "ok" THEN o1
                           ELSE IF o1.h[node].next # NULL
                           THEN SetPrev(o1, o1.h[node].next, o1.h[node].prev)
                           ELSE [o1 EXCEPT !.l.tail = o1.h[node].prev]
                     o3 == free(o2, node)
                 IN IF o3.st # "ok" THEN o3 ELSE [o3 EXCEPT !.l.len = @ - 1]

\* list.c:729-734: the loop that swaps prev and next of every node.  `seen`
\* holds the loop states already passed through: the loop is deterministic,
\* so passing through one twice means it never ends.
RECURSIVE ReverseWalk(_, _, _)
ReverseWalk(o, node, seen) ==
    IF node = NULL THEN o
    ELSE IF node \notin o.lv THEN Undefined(o)
    ELSE IF <<node, o.h>> \in seen THEN Hung(o)
    ELSE LET o1 == [o EXCEPT !.h[node].prev = o.h[node].next,
                             !.h[node].next = o.h[node].prev]
         IN ReverseWalk(o1, o1.h[node].prev, seen \cup {<<node, o.h>>})

\* list.c:721-742
list_reverse(l, h, lv) ==
    IF l.head = NULL THEN LOutcome(l, h, lv, false, "ok")
    ELSE LET o == ReverseWalk(LOutcome(l, h, lv, true, "ok"), l.head, {})
         IN IF o.st # "ok" THEN o
            ELSE [o EXCEPT !.l.head = l.tail, !.l.tail = l.head]

\* list.c:758-763: the search loop
RECURSIVE ContainsFrom(_, _, _, _, _)
ContainsFrom(h, lv, node, data, seen) ==
    IF node = NULL THEN false
    ELSE IF node \notin lv THEN UNDEF
    ELSE IF node \in seen THEN HANG
    ELSE IF h[node].data = data THEN true
    ELSE ContainsFrom(h, lv, h[node].next, data, seen \cup {node})

\* list.c:751-767
list_contains(l, h, lv, data) == ContainsFrom(h, lv, l.head, data, {})

\* list.c:777-790
list_get(l, h, lv, index) ==
    IF l.head = NULL \/ index >= l.len THEN NULL
    ELSE LET node == NodeAt(h, lv, l.head, index)
         IN IF node \notin lv THEN UNDEF ELSE h[node].data

\* list.c:800-815
list_set(l, h, lv, index, data) ==
    IF l.head = NULL \/ index >= l.len THEN LOutcome(l, h, lv, false, "ok")
    ELSE LET node == NodeAt(h, lv, l.head, index)
         IN IF node \notin lv THEN Undefined(LOutcome(l, h, lv, false, "ok"))
            ELSE LOutcome(l, [h EXCEPT ![node].data = data], lv, true, "ok")

\* list.c:824-831
list_len(l) == l.len

\* list.c:475-480: free every node from curr on
RECURSIVE DropNodes(_, _)
DropNodes(o, curr) ==
    IF curr = NULL \/ o.st # "ok" THEN o
    ELSE IF curr \notin o.lv THEN Undefined(o)
    ELSE DropNodes(free(o, curr), o.h[curr].next)

\* list.c:469-484
list_drop(l, h, lv) == DropNodes(LOutcome(l, h, lv, NULL, "ok"), l.head)

(***************************************************************************)
(* Initial state: hashmap_new (hashmap.c:82-105), vector_new               *)
(* (vector.c:29-45) and list_new (list.c:447-462)                          *)
(***************************************************************************)
\* no `other` vector
NoOther == [isNull |-> TRUE, elems |-> <<>>, len |-> 0]

\* the state before the first call on the vector made by vector_new
NoVCall == [op |-> "new", arg |-> 0, data |-> NULL, other |-> NoOther,
            self |-> FALSE, ra |-> "none", ret |-> 0]

NullMap == [items |-> <<>>, isNull |-> TRUE, capacity |-> 0, nitems |-> 0]

\* the state before the first call on the list made by list_new
NoLCall == [op |-> "new", arg |-> 0, data |-> NULL, ret |-> 0]

Init ==
    /\ map = NullMap
    /\ heap = [a \in Addr |-> ZeroCell]
    /\ live = {}
    /\ status = "ok"
    /\ last = [op |-> "new", arg |-> 0, ret |-> 0]
    /\ ref = [k \in KeyHandles |-> Absent]
    /\ calls = 0
    /\ vec = NewVec
    /\ vstatus = "ok"
    /\ vlast = NoVCall
    /\ vref = <<>>
    /\ vcalls = 0
    /\ list = NewList
    /\ nodes = [a \in NodeAddr |-> ZeroNode]
    /\ nlive = {}
    /\ lstatus = "ok"
    /\ llast = NoLCall
    /\ lref = <<>>
    /\ lcalls = 0

(***************************************************************************)
(* Actions: one call of the API each                                       *)
(***************************************************************************)
\* The cells malloc may return: any cell that is not allocated.  Cells that
\* no chain links are interchangeable, so only the lowest of them is tried;
\* a freed cell that a chain still links is a different answer.
MallocChoices(m, h, lv) ==
    LET avail == Addr \ lv
        unlinked == avail \ Linked(m, h)
    IN  (avail \cap Linked(m, h)) \cup
        {a \in unlinked : \A b \in unlinked : a <= b}

\* What a call leaves behind.  After a call that does not return, or whose
\* behaviour is undefined, and after hashmap_drop, there is no map to look
\* at any more: the state keeps only the status and the call.
Gone ==
    /\ map' = NullMap
    /\ heap' = [a \in Addr |-> ZeroCell]
    /\ ref' = [k \in KeyHandles |-> Absent]

Commit(o, op, arg, newref) ==
    /\ calls < MaxCalls
    /\ UNCHANGED <<vvars, lvars>>
    /\ calls' = calls + 1
    /\ status' = o.st
    /\ last' = [op |-> op, arg |-> arg, ret |-> o.ret]
    /\ IF o.st = "ok"
       THEN LET c == Canon(o.m, o.h, o.lv)
            IN /\ map' = c.m
               /\ heap' = c.h
               /\ live' = c.lv
               /\ ref' = newref
       ELSE Gone /\ live' = {}

Insert(key, data) ==
    /\ status = "ok"
    /\ calls < MaxCalls
    /\ \E callocOk1 \in IF map.isNull THEN BOOLEAN ELSE {TRUE} :
       \E callocOk2, mallocOk \in BOOLEAN :
       \E addr \in IF Addr \ live = {} THEN {NULL} ELSE MallocChoices(map, heap, live) :
          /\ addr = NULL => ~mallocOk
          /\ LET o == hashmap_insert(map, heap, live, key, data,
                                     callocOk1, callocOk2, mallocOk, addr)
             IN Commit(o, "insert", key,
                       IF o.ret = true
                       THEN [k \in KeyHandles |->
                                IF str_cmp(k, key) THEN data ELSE ref[k]]
                       ELSE ref)

Remove(key) ==
    /\ status = "ok"
    /\ calls < MaxCalls
    /\ LET o == hashmap_remove(map, heap, live, key)
       IN Commit(o, "remove", key,
                 [k \in KeyHandles |-> IF str_cmp(k, key) THEN Absent ELSE ref[k]])

Reserve(capacity) ==
    /\ status = "ok"
    /\ calls < MaxCalls
    /\ \E callocOk \in BOOLEAN :
          LET o == hashmap_reserve(map, heap, live, capacity, callocOk)
          IN Commit(o, "reserve", capacity, ref)

Drop ==
    /\ status = "ok"
    /\ calls < MaxCalls
    /\ UNCHANGED <<vvars, lvars>>
    /\ calls' = calls + 1
    /\ LET o == hashmap_drop(map, heap, live)
       IN /\ status' = IF o.st = "ok" THEN "dropped" ELSE o.st
          /\ last' = [op |-> "drop", arg |-> 0, ret |-> o.ret]
          /\ live' = IF o.st = "ok" THEN 1..Cardinality(o.lv) ELSE {}
          /\ Gone

Next ==
    \/ \E key \in KeyHandles, data \in Data : Insert(key, data)
    \/ \E key \in KeyHandles : Remove(key)
    \/ \E capacity \in 0..MaxCap : Reserve(capacity)
    \/ Drop

Spec == Init /\ [][Next]_vars

\* Calls in which no allocation fails (C1)
NextNoFail ==
    /\ Next
    /\ ~(last'.op \in {"insert", "reserve"} /\ last'.ret = false)

SpecNoFail == Init /\ [][NextNoFail]_vars

\* Successful inserts of keys the map does not hold (C7)
InsertDistinct ==
    \E key \in KeyHandles, data \in Data :
        /\ hashmap_contains(map, heap, live, key) = false
        /\ Insert(key, data)
        /\ last'.ret = true

SpecInserts == Init /\ [][InsertDistinct]_vars

(***************************************************************************)
(* The map as a caller sees it                                             *)
(***************************************************************************)
Get(k) == hashmap_get(map, heap, live, k)

Contains(k) == hashmap_contains(map, heap, live, k)

Iter == hashmap_iter(map, heap, live)

\* the (key, data) pairs the callback is called with
IterPairs == {Iter.calls[i] : i \in 1..Len(Iter.calls)}

\* what the reference map expects get to return
Expected(k) == IF ref[k] = Absent THEN NULL ELSE ref[k]

Defined(r) == r \notin {HANG, UNDEF}

TypeOK ==
    /\ map.capacity \in 0..(2 * MaxCap)
    /\ map.nitems \in Nat
    /\ Len(map.items) = map.capacity
    /\ heap \in [Addr -> Cells]
    /\ live \subseteq Addr
    /\ calls \in 0..MaxCalls

(***************************************************************************)
(* Claims                                                                  *)
(***************************************************************************)
\* C1: after any sequence of insert, remove and reserve calls in which no
\* allocation fails, get(k) returns the value of the most recent insert of k
\* if k was not removed since, and NULL if k was never inserted or was
\* removed after its last insert.
C1_Lookup ==
    status = "ok" => \A k \in KeyHandles : Get(k) = Expected(k)

\* C2: remove of a present key k returns the value stored for k, decrements
\* count by exactly 1, makes contains(k) false and leaves every other key
\* retrievable by get with its value unchanged.
C2_RemovePresent ==
    [][(last'.op = "remove" /\ Contains(last'.arg) = true)
        => /\ status' = "ok"
           /\ last'.ret = Get(last'.arg)
           /\ hashmap_len(map') = hashmap_len(map) - 1
           /\ hashmap_contains(map', heap', live', last'.arg) = false
           /\ \A j \in KeyHandles :
                 ~cmp(j, last'.arg) => Get(j)' = Get(j)]_vars

\* C3: when remove returns a value, exactly the entry that held the key has
\* been freed (one allocated cell fewer), and no entry that a chain still
\* links has been freed.
C3_RemoveFrees ==
    [][(last'.op = "remove" /\ status' = "ok" /\ Contains(last'.arg) = true)
        => /\ Cardinality(live') = Cardinality(live) - 1
           /\ Linked(map', heap') \subseteq live']_vars

\* C4: in every state reachable by insert, remove and reserve, no two entries
\* of the table have keys that are equal under the comparison function.
C4_Unique ==
    (status = "ok" /\ Iter.st = "ok")
        => \A i, j \in 1..Len(Iter.calls) :
              i # j => ~cmp(Iter.calls[i].key, Iter.calls[j].key)

\* C5 as claimed: in every reachable state of a live map, after any sequence
\* of insert, remove and reserve calls, count <= 0.8 * capacity.
C5_LoadFactor_Orig ==
    (status = "ok" /\ hashmap_capacity(map) > 0)
        => 5 * hashmap_len(map) <= 4 * hashmap_capacity(map)

\* C5 as amended: count <= 0.8 * capacity holds of a live map after its
\* first insert and is preserved by every insert and remove call; only a
\* direct reserve call can break it.
C5_LoadFactor ==
    [][(last'.op \in {"insert", "remove"} /\ C5_LoadFactor_Orig)
        => C5_LoadFactor_Orig']_vars

C5_Witness ==
    /\ status = "ok"
    /\ last.op = "insert"
    /\ last.ret = true
    /\ hashmap_capacity(map) = 4
    /\ hashmap_len(map) = 3

\* C6: the value returned by len equals the number of entries linked across
\* all bucket chains.
C6_Count ==
    status = "ok" => hashmap_len(map) = Cardinality(Linked(map, heap))

\* C7: after inserting N distinct keys into a new map, iterate invokes the
\* callback exactly N times, once for each inserted key with its current
\* value, no key twice and none omitted.
C7_IterComplete ==
    status = "ok"
        => /\ Iter.st = "ok"
           /\ Len(Iter.calls) = calls
           /\ IterPairs = {[key |-> k, data |-> ref[k]] :
                              k \in {x \in KeyHandles : ref[x] # Absent}}
           /\ Cardinality(IterPairs) = calls

C7_Witness ==
    /\ status = "ok"
    /\ calls = 3
    /\ hashmap_capacity(map) = 4
    /\ Len(Iter.calls) = 3
    /\ \E b \in 1..Len(map.items) :
          map.items[b] # NULL /\ heap[map.items[b]].next # NULL

\* C8: a successful reserve(map, c) with c >= count leaves count and the
\* (key, value) pairs produced by iterate as they were, none lost or
\* duplicated, and every key still retrievable by get.
C8_ReservePreserves ==
    [][(last'.op = "reserve" /\ status' = "ok" /\ last'.ret = true
            /\ last'.arg >= hashmap_len(map))
        => /\ hashmap_len(map') = hashmap_len(map)
           /\ Iter'.st = Iter.st
           /\ IterPairs' = IterPairs
           /\ Len(Iter.calls)' = Len(Iter.calls)
           /\ \A k \in KeyHandles :
                 Contains(k) = true => Get(k)' = Get(k)]_vars

\* C9: reserve(map, c) with c < count returns true and changes nothing:
\* capacity, count and every bucket chain are as before.
C9_ReserveBelowCount ==
    [][(last'.op = "reserve" /\ last'.arg < hashmap_len(map))
        => /\ status' = "ok"
           /\ last'.ret = true
           /\ map' = map
           /\ heap' = heap
           /\ live' = live]_vars

C9_Witness ==
    /\ status = "ok"
    /\ last.op = "reserve"
    /\ last.arg < hashmap_len(map)
    /\ last.arg > 0

\* C10 as claimed: for every key k and every value handle, NULL included,
\* contains(k) is true exactly when get(k) is not the absent result.
C10_Agree_Orig ==
    status = "ok"
        => \A k \in KeyHandles :
              Defined(Contains(k)) => ((Contains(k) = true) <=> (Get(k) # NULL))

\* the entry insert's walk finds for k holds a NULL value handle
StoredNull(k) ==
    /\ ~map.isNull
    /\ map.capacity > 0
    /\ LET item == FindItem(heap, live, Bucket(map, hash(k) % map.capacity), k, {})
       IN item \in Addr /\ heap[item].data = NULL

\* C10 as amended: contains(k) and get(k) walk the same chain and end the same
\* way: where one is undefined or never returns so is the other; otherwise a
\* key whose stored value handle is NULL is contained while get returns NULL,
\* and for every other key contains(k) is true exactly when get(k) is not NULL.
C10_Agree ==
    status = "ok"
        => \A k \in KeyHandles :
              IF ~Defined(Contains(k)) \/ ~Defined(Get(k))
              THEN Get(k) = Contains(k)
              ELSE IF StoredNull(k)
                   THEN Contains(k) = true /\ Get(k) = NULL
                   ELSE (Contains(k) = true) <=> (Get(k) # NULL)

C10_Witness ==
    /\ status = "ok"
    /\ \E k1, k2 \in KeyHandles :
          /\ Contains(k1) = true /\ Get(k1) = NULL
          /\ Contains(k2) = true /\ Get(k2) > NULL

\* the key handle held by the entry that the walk of insert finds for k
StoredKey(m, h, lv, k) ==
    IF m.isNull \/ m.capacity = 0 THEN NULL
    ELSE LET item == FindItem(h, lv, Bucket(m, hash(k) % m.capacity), k, {})
         IN IF item \in Addr THEN h[item].key ELSE NULL

\* C11: an insert of a key that is already present, when no allocation of
\* the call fails, overwrites the value in place: the call returns, afterwards
\* get(k) returns the new value, count is as before, and the entry holds the
\* key handle it held before, not the handle passed to this insert.
C11_Overwrite ==
    [][(last'.op = "insert" /\ last'.ret # false
            /\ Contains(last'.arg) = true)
        => /\ status' = "ok"
           /\ hashmap_get(map', heap', live', last'.arg) = ref'[last'.arg]
           /\ hashmap_len(map') = hashmap_len(map)
           /\ StoredKey(map', heap', live', last'.arg)
                 = StoredKey(map, heap, live, last'.arg)]_vars

\* C12: on a map with capacity 0, and on a live map that does not hold key k,
\* contains(k) returns false, get(k) returns NULL and remove(k) returns NULL,
\* and capacity, count and all chains are as before.
C12_Missing ==
    [][\A k \in KeyHandles :
          (status = "ok" /\ ref[k] = Absent)
             => /\ Contains(k) = false
                /\ Get(k) = NULL
                /\ (last'.op = "remove" /\ last'.arg = k)
                      => /\ status' = "ok"
                         /\ last'.ret = NULL
                         /\ map' = map
                         /\ heap' = heap
                         /\ live' = live]_vars

(***************************************************************************)
(* Vector actions: one call of the API each                                *)
(***************************************************************************)
\* the vectors passed as `other`: one with data == NULL (as vector_new
\* leaves it) and the vectors holding up to MaxOther elements
OtherVecs ==
    {NoOther} \cup
    {[isNull |-> FALSE, elems |-> s, len |-> Len(s)] :
        s \in UNION {[1..n -> Data] : n \in 0..MaxOther}}

\* the vector itself, passed as `other`
SelfOther(v) ==
    [isNull |-> v.isNull,
     elems |-> IF v.len > 0 /\ InBlock(v, v.len - 1) THEN SubSeq(v.buf, 1, v.len)
               ELSE <<>>,
     len |-> v.len]

\* The capacity a call asks vector_reserve for, or NoRequest when it does
\* not call it: vector.c:76-78, 161-163, 103-104 and 398.
NoRequest == -1

AppendRequest(v) ==
    IF v.len + 1 > v.capacity
    THEN (IF v.capacity = 0 THEN 1 ELSE v.capacity * 2)
    ELSE NoRequest

InsertRequest(v, index) ==
    IF index <= v.len /\ v.len = v.capacity
    THEN (IF v.capacity = 0 THEN 1 ELSE v.capacity * 2)
    ELSE NoRequest

ExtendRequest(v, other) ==
    IF ~v.isNull /\ ~other.isNull /\ v.len + other.len > v.capacity
    THEN v.len + other.len
    ELSE NoRequest

ResizeRequest(v, len) == IF len > v.capacity THEN len ELSE NoRequest

\* realloc's possible answers to the call, "none" when vector_reserve is not
\* called or returns before it calls realloc (vector.c:348-353)
Answers(v, capacity) ==
    IF capacity = NoRequest \/ capacity < v.len \/ capacity = v.capacity \/ v.freed
    THEN {"none"}
    ELSE ReallocAnswers(v, capacity)

\* What a call leaves behind; after a call whose behaviour is undefined and
\* after vector_drop there is no vector to look at any more.
VCommit(o, op, arg, data, other, self, ra) ==
    /\ vstatus = "ok"
    /\ vcalls < MaxVCalls
    /\ vcalls' = vcalls + 1
    /\ UNCHANGED <<hvars, lvars>>
    /\ vstatus' = o.st
    /\ vlast' = [op |-> op, arg |-> arg, data |-> data, other |-> other,
                 self |-> self, ra |-> ra, ret |-> o.ret]
    /\ vec' = IF o.st = "ok" THEN o.v ELSE NewVec

\* maxcap: the capacity the call may grow the vector to
VAppendCall(data, maxcap) ==
    \E ra \in Answers(vec, AppendRequest(vec)) :
        LET o == vector_append(vec, data, ra)
        IN /\ o.st = "ok" => o.v.capacity <= maxcap
           /\ VCommit(o, "append", 0, data, NoOther, FALSE, ra)

VAppend(data) == VAppendCall(data, MaxVCap) /\ UNCHANGED vref

VExtend(other, self) ==
    LET oth == IF self THEN SelfOther(vec) ELSE other
    IN \E ra \in Answers(vec, ExtendRequest(vec, oth)) :
          LET o == vector_extend(vec, oth, self, ra)
          IN /\ o.st = "ok" => o.v.capacity <= MaxVCap
             /\ VCommit(o, "extend", 0, NULL, oth, self, ra)
             /\ UNCHANGED vref

VPop ==
    /\ VCommit(vector_pop(vec), "pop", 0, NULL, NoOther, FALSE, "none")
    /\ UNCHANGED vref

VInsert(index, data) ==
    \E ra \in Answers(vec, InsertRequest(vec, index)) :
        LET o == vector_insert(vec, index, data, ra)
        IN /\ o.st = "ok" => o.v.capacity <= MaxVCap
           /\ VCommit(o, "insert", index, data, NoOther, FALSE, ra)
           /\ UNCHANGED vref

VRemove(index) ==
    \E junk \in IF InBlock(vec, index) /\ vec.buf[index + 1] = Uninit
                THEN Data ELSE {NULL} :
        /\ VCommit(vector_remove(vec, index, junk), "remove", index, NULL,
                   NoOther, FALSE, "none")
        /\ UNCHANGED vref

VSet(index, data) ==
    /\ VCommit(vector_set(vec, index, data), "set", index, data, NoOther, FALSE,
               "none")
    /\ UNCHANGED vref

VReserve(capacity) ==
    \E ra \in Answers(vec, capacity) :
        /\ VCommit(vector_reserve(vec, capacity, ra), "reserve", capacity, NULL,
                   NoOther, FALSE, ra)
        /\ UNCHANGED vref

VResize(len) ==
    \E ra \in Answers(vec, ResizeRequest(vec, len)) :
        /\ VCommit(vector_resize(vec, len, ra), "resize", len, NULL, NoOther,
                   FALSE, ra)
        /\ UNCHANGED vref

VShrinkToFit ==
    /\ VCommit(vector_shrink_to_fit(vec), "shrink_to_fit", 0, NULL, NoOther,
               FALSE, "none")
    /\ UNCHANGED vref

\* vector.c:52-60: free(vec->data); free(vec)
VDrop ==
    /\ vstatus = "ok"
    /\ vcalls < MaxVCalls
    /\ vcalls' = vcalls + 1
    /\ UNCHANGED <<hvars, lvars>>
    /\ vstatus' = IF vec.freed THEN "undefined" ELSE "dropped"
    /\ vlast' = [op |-> "drop", arg |-> 0, data |-> NULL, other |-> NoOther,
                 self |-> FALSE, ra |-> "none",
                 ret |-> IF vec.freed THEN UNDEF ELSE NULL]
    /\ vec' = NewVec
    /\ UNCHANGED vref

VNext ==
    \/ \E data \in Data : VAppend(data)
    \/ \E other \in OtherVecs : VExtend(other, FALSE)
    \/ VExtend(NoOther, TRUE)
    \/ VPop
    \/ \E index \in 0..MaxVCap, data \in Data : VInsert(index, data)
    \/ \E index \in 0..MaxVCap : VRemove(index)
    \/ \E index \in 0..MaxVCap, data \in Data : VSet(index, data)
    \/ \E capacity \in 0..MaxVCap : VReserve(capacity)
    \/ \E len \in 0..MaxVCap : VResize(len)
    \/ VShrinkToFit
    \/ VDrop

VSpec == Init /\ [][VNext]_vars

\* Appends to a new vector, the successful ones logged in vref (C13); the
\* vector may grow one doubling beyond MaxVCap
AppendOnly ==
    \E data \in Data :
        /\ VAppendCall(data, 2 * MaxVCap)
        /\ vref' = IF vlast'.ret = true THEN Append(vref, data) ELSE vref

VSpecAppends == Init /\ [][AppendOnly]_vars

(***************************************************************************)
(* The vector as a caller sees it                                          *)
(***************************************************************************)
VGet(i) == vector_get(vec, i)

\* the elements get returns for the indices 0 .. len - 1
VElems == [i \in 1..vector_len(vec) |-> VGet(i - 1)]

VTypeOK ==
    /\ vec.capacity \in 0..MaxVCap
    /\ vec.len \in 0..MaxVCap
    /\ vec.freed \/ Len(vec.buf) = vec.capacity
    /\ \A i \in 1..Len(vec.buf) : vec.buf[i] \in Data \cup {Uninit}
    /\ vcalls \in 0..MaxVCalls

(***************************************************************************)
(* Claims about the vector                                                 *)
(***************************************************************************)
\* the smallest of c, 2c, 4c, ... that is at least n
RECURSIVE DoublingFrom(_, _)
DoublingFrom(c, n) == IF c >= n THEN c ELSE DoublingFrom(2 * c, n)

\* C13: starting from a new vector, after N successful append calls length
\* is N, get(i) returns the i-th appended payload, and capacity is 0 for
\* N = 0 and the smallest power of two >= N otherwise, so capacity >= length.
C13_AppendGrowth ==
    /\ vstatus = "ok"
    /\ vector_len(vec) = Len(vref)
    /\ \A i \in 1..Len(vref) : VGet(i - 1) = vref[i]
    /\ vector_capacity(vec) = IF Len(vref) = 0 THEN 0 ELSE DoublingFrom(1, Len(vref))
    /\ vector_capacity(vec) >= vector_len(vec)

\* five appends have succeeded, the last one after the growth from 4 to 8
C13_Witness ==
    /\ vstatus = "ok"
    /\ Len(vref) = 5
    /\ vector_capacity(vec) = 2 * MaxVCap
    /\ VGet(4) = MaxData
    /\ vlast.ra = "ok"

\* C14: pop on a non-empty vector returns the payload that was at index
\* length - 1 and reduces the length by exactly one, leaving the elements at
\* the indices below it unchanged, whatever the capacity and length.
C14_Pop ==
    [][(vlast'.op = "pop" /\ vector_len(vec) > 0)
        => /\ vstatus' = "ok"
           /\ vlast'.ret = VGet(vector_len(vec) - 1)
           /\ vector_len(vec') = vector_len(vec) - 1
           /\ \A i \in 0..(vector_len(vec) - 2) : vector_get(vec', i) = VGet(i)]_vars

\* C15: remove at an index i < length returns the payload that was at i,
\* decrements length by exactly 1, leaves the elements before i unchanged and
\* moves every element after i down by one position.
C15_Remove ==
    [][(vlast'.op = "remove" /\ vlast'.arg < vector_len(vec))
        => /\ vstatus' = "ok"
           /\ vlast'.ret = VGet(vlast'.arg)
           /\ vector_len(vec') = vector_len(vec) - 1
           /\ \A i \in 0..(vector_len(vec) - 2) :
                 vector_get(vec', i) = IF i < vlast'.arg THEN VGet(i) ELSE VGet(i + 1)]_vars

\* C16: remove with an index >= length returns NULL and leaves the vector's
\* length, capacity and elements unchanged, also when the vector is not empty.
C16_RemoveOutOfBounds ==
    [][(vlast'.op = "remove" /\ vlast'.arg >= vector_len(vec))
        => /\ vstatus' = "ok"
           /\ vlast'.ret = NULL
           /\ vector_len(vec') = vector_len(vec)
           /\ vector_capacity(vec') = vector_capacity(vec)
           /\ VElems' = VElems]_vars

\* C17: in every state reachable by append, extend, insert, remove, pop, set,
\* reserve, resize and shrink_to_fit calls, allocations failing or not,
\* 0 <= length <= capacity, and no call writes an element slot outside the
\* block of `capacity` slots that data points to.
C17_Bounds ==
    [][/\ vstatus' = "ok" => (0 <= vector_len(vec') /\ vector_len(vec') <= vector_capacity(vec'))
       /\ ~(/\ vstatus' = "undefined"
            /\ ~vec.freed
            /\ vlast'.op \in {"append", "extend", "insert", "set", "resize"})]_vars

\* C18: every mutating call whose internal allocation fails (realloc returns
\* NULL) returns false and leaves the length and the stored elements
\* unchanged.
C18_AllocFailure ==
    [][(vlast'.ra \in {"null", "freed"})
        => /\ vstatus' = "ok"
           /\ vlast'.ret = false
           /\ vector_len(vec') = vector_len(vec)
           /\ VElems' = VElems]_vars

\* C19: for every index i in [0, length], an insert(v, i, p) whose allocation
\* does not fail returns true, makes get(v, i) return p, increases length by
\* exactly 1, leaves the elements below i unchanged and moves each element
\* formerly at j >= i to j + 1; insert with i > length returns false and
\* leaves the vector unchanged.
C19_Insert ==
    [][(vlast'.op = "insert")
        => IF vlast'.arg > vector_len(vec)
           THEN vstatus' = "ok" /\ vlast'.ret = false /\ vec' = vec
           ELSE (vlast'.ra # "null")
                  => /\ vstatus' = "ok"
                     /\ vlast'.ret = true
                     /\ vector_get(vec', vlast'.arg) = vlast'.data
                     /\ vector_len(vec') = vector_len(vec) + 1
                     /\ \A j \in 0..(vector_len(vec) - 1) :
                           VGet(j) = vector_get(vec', IF j < vlast'.arg THEN j ELSE j + 1)]_vars

\* C20: shrink_to_fit on a non-empty vector reduces capacity to exactly the
\* current length and preserves length and all elements; on an empty vector
\* it returns false and changes nothing.
C20_ShrinkToFit ==
    [][(vlast'.op = "shrink_to_fit")
        => /\ vstatus' = "ok"
           /\ IF vector_len(vec) = 0
              THEN vlast'.ret = false /\ vec' = vec
              ELSE /\ vector_capacity(vec') = vector_len(vec)
                   /\ vector_len(vec') = vector_len(vec)
                   /\ VElems' = VElems]_vars

\* C21: reserve(v, c) with c < length returns false and leaves the vector
\* unchanged; with c equal to the capacity it returns true and changes
\* nothing; otherwise, when realloc does not return NULL, the capacity becomes
\* exactly c and the length and the elements at [0, length) are preserved.
C21_Reserve ==
    [][(vlast'.op = "reserve")
        => IF vlast'.arg < vector_len(vec)
           THEN vstatus' = "ok" /\ vlast'.ret = false /\ vec' = vec
           ELSE IF vlast'.arg = vector_capacity(vec)
           THEN vstatus' = "ok" /\ vlast'.ret = true /\ vec' = vec
           ELSE (vlast'.ra \notin {"null", "freed"})
                  => /\ vstatus' = "ok"
                     /\ vlast'.ret = true
                     /\ vector_capacity(vec') = vlast'.arg
                     /\ vector_len(vec') = vector_len(vec)
                     /\ VElems' = VElems]_vars

\* C22: resize(v, n) whose allocation does not fail returns true and makes the
\* length n.  If n exceeds the previous length, the slots [previous length, n)
\* read NULL, the elements below the previous length are preserved and the
\* capacity becomes n only if n exceeded it; if n is not larger, the first n
\* elements are preserved and the capacity is unchanged.
C22_Resize ==
    [][(vlast'.op = "resize" /\ vlast'.ra # "null")
        => /\ vstatus' = "ok"
           /\ vlast'.ret = true
           /\ vector_len(vec') = vlast'.arg
           /\ vector_capacity(vec') = IF vlast'.arg > vector_capacity(vec)
                                      THEN vlast'.arg ELSE vector_capacity(vec)
           /\ \A i \in 0..(vlast'.arg - 1) :
                 vector_get(vec', i) = IF i < vector_len(vec) THEN VGet(i) ELSE NULL]_vars

\* C23: extend(v, other) with both data pointers non-NULL and an allocation
\* that does not fail returns true, makes v's length the sum of the two
\* lengths with a capacity of at least that sum, leaves v's old elements
\* where they were and puts other's elements after them in their order; with
\* a NULL data pointer in either vector it returns false and changes nothing.
C23_Extend ==
    [][(vlast'.op = "extend")
        => IF vec.isNull \/ vlast'.other.isNull
           THEN vstatus' = "ok" /\ vlast'.ret = false /\ vec' = vec
           ELSE (vlast'.ra # "null")
                  => /\ vstatus' = "ok"
                     /\ vlast'.ret = true
                     /\ vector_len(vec') = vector_len(vec) + vlast'.other.len
                     /\ vector_capacity(vec') >= vector_len(vec) + vlast'.other.len
                     /\ \A i \in 0..(vector_len(vec) - 1) : vector_get(vec', i) = VGet(i)
                     /\ \A i \in 0..(vlast'.other.len - 1) :
                           vector_get(vec', vector_len(vec) + i) = vlast'.other.elems[i + 1]]_vars

(***************************************************************************)
(* List actions: one call of the API each                                  *)
(***************************************************************************)
\* the nodes that the list or an allocated node points to
LLinked(l, h, lv) ==
    ({l.head, l.tail} \cup {h[a].prev : a \in lv} \cup {h[a].next : a \in lv})
        \ {NULL}

\* The nodes malloc may return: any node that is not allocated.  Nodes that
\* nothing points to are interchangeable, so only the lowest of them is
\* tried; a freed node that something still points to is a different answer.
LMallocChoices(l, h, lv) ==
    LET avail == NodeAddr \ lv
        unlinked == avail \ LLinked(l, h, lv)
    IN  (avail \cap LLinked(l, h, lv)) \cup
        {a \in unlinked : \A b \in unlinked : a <= b}

\* the reference sequence with d put at position i (0-based)
InsertAt(s, i, d) == SubSeq(s, 1, i) \o <<d>> \o SubSeq(s, i + 1, Len(s))

\* the reference sequence without its element at position i (0-based)
RemoveAt(s, i) == SubSeq(s, 1, i) \o SubSeq(s, i + 2, Len(s))

Reverse(s) == [i \in 1..Len(s) |-> s[Len(s) + 1 - i]]

\* What a call leaves behind; the contents of a freed node are gone.  After
\* list_drop the list is gone, and the nodes it has not freed stay allocated.
\* After a call that does not return or whose behaviour is undefined there is
\* no list to look at any more.
LCommit(o, op, arg, data, newref) ==
    /\ lstatus = "ok"
    /\ lcalls < MaxLCalls
    /\ lcalls' = lcalls + 1
    /\ UNCHANGED <<hvars, vvars>>
    /\ lstatus' = o.st
    /\ llast' = [op |-> op, arg |-> arg, data |-> data, ret |-> o.ret]
    /\ IF o.st = "ok"
       THEN /\ list' = o.l
            /\ nodes' = [a \in NodeAddr |-> IF a \in o.lv THEN o.h[a] ELSE ZeroNode]
            /\ nlive' = o.lv
            /\ lref' = newref
       ELSE IF o.st = "dropped"
       THEN /\ list' = NewList
            /\ nodes' = [a \in NodeAddr |-> IF a \in o.lv THEN o.h[a] ELSE ZeroNode]
            /\ nlive' = o.lv
            /\ lref' = <<>>
       ELSE /\ list' = NewList
            /\ nodes' = [a \in NodeAddr |-> ZeroNode]
            /\ nlive' = {}
            /\ lref' = <<>>

\* malloc's answers <<mallocOk, node>>: failure, or one of the nodes it may
\* return
LMallocAnswers ==
    {<<FALSE, NULL>>} \cup
    {<<TRUE, node>> : node \in LMallocChoices(list, nodes, nlive)}

LAppend(data) ==
    \E m \in LMallocAnswers :
        LET o == list_append(list, nodes, nlive, data, m[1], m[2])
        IN LCommit(o, "append", 0, data,
                   IF o.ret = true THEN Append(lref, data) ELSE lref)

LPrepend(data) ==
    \E m \in LMallocAnswers :
        LET o == list_prepend(list, nodes, nlive, data, m[1], m[2])
        IN LCommit(o, "prepend", 0, data,
                   IF o.ret = true THEN <<data>> \o lref ELSE lref)

LPop ==
    LCommit(list_pop(list, nodes, nlive), "pop", 0, NULL,
            IF lref = <<>> THEN lref ELSE SubSeq(lref, 1, Len(lref) - 1))

LShift ==
    LCommit(list_shift(list, nodes, nlive), "shift", 0, NULL,
            IF lref = <<>> THEN lref ELSE Tail(lref))

LInsert(index, data) ==
    \E m \in LMallocAnswers :
        LET o == list_insert(list, nodes, nlive, index, data, m[1], m[2])
        IN LCommit(o, "insert", index, data,
                   IF o.ret = true /\ index <= Len(lref)
                   THEN InsertAt(lref, index, data) ELSE lref)

LRemove(index) ==
    LCommit(list_remove(list, nodes, nlive, index), "remove", index, NULL,
            IF index < Len(lref) THEN RemoveAt(lref, index) ELSE lref)

LReverse ==
    LCommit(list_reverse(list, nodes, nlive), "reverse", 0, NULL, Reverse(lref))

LSet(index, data) ==
    LCommit(list_set(list, nodes, nlive, index, data), "set", index, data,
            IF index < Len(lref) THEN [lref EXCEPT ![index + 1] = data] ELSE lref)

\* list.c:469-484
LDrop ==
    LET o == list_drop(list, nodes, nlive)
    IN LCommit([o EXCEPT !.st = IF o.st = "ok" THEN "dropped" ELSE o.st],
               "drop", 0, NULL, <<>>)

LNext ==
    \/ \E data \in Data : LAppend(data)
    \/ \E data \in Data : LPrepend(data)
    \/ LPop
    \/ LShift
    \/ \E index \in 0..MaxNodes, data \in Data : LInsert(index, data)
    \/ \E index \in 0..MaxNodes : LRemove(index)
    \/ LReverse
    \/ \E index \in 0..MaxNodes, data \in Data : LSet(index, data)
    \/ LDrop

LSpec == Init /\ [][LNext]_vars

(***************************************************************************)
(* The list as a caller sees it                                            *)
(***************************************************************************)
LGet(i) == list_get(list, nodes, nlive, i)

LTypeOK ==
    /\ list.head \in NodePtr /\ list.tail \in NodePtr
    /\ list.len \in 0..MaxLCalls
    /\ nlive \subseteq NodeAddr
    /\ \A a \in NodeAddr : nodes[a] \in [prev : NodePtr, next : NodePtr, data : Data]
    /\ lstatus \in {"ok", "hung", "undefined", "dropped"}
    /\ lcalls \in 0..MaxLCalls

\* the calls C25 is about: append, prepend, insert and remove
LNextLinks ==
    \/ \E data \in Data : LAppend(data)
    \/ \E data \in Data : LPrepend(data)
    \/ \E index \in 0..MaxNodes, data \in Data : LInsert(index, data)
    \/ \E index \in 0..MaxNodes : LRemove(index)

LSpecLinks == Init /\ [][LNextLinks]_vars

\* The nodes met by following next from node, in order; the walk ends at
\* NULL, and with UNDEF as its last entry when it meets a freed node or a
\* node for the second time.
RECURSIVE WalkNext(_, _, _, _)
WalkNext(h, lv, node, acc) ==
    IF node = NULL THEN acc
    ELSE IF node \notin lv \/ (\E i \in 1..Len(acc) : acc[i] = node)
    THEN Append(acc, UNDEF)
    ELSE WalkNext(h, lv, h[node].next, Append(acc, node))

\* the same walk along prev
RECURSIVE WalkPrev(_, _, _, _)
WalkPrev(h, lv, node, acc) ==
    IF node = NULL THEN acc
    ELSE IF node \notin lv \/ (\E i \in 1..Len(acc) : acc[i] = node)
    THEN Append(acc, UNDEF)
    ELSE WalkPrev(h, lv, h[node].prev, Append(acc, node))

(***************************************************************************)
(* Claims about the linked list                                            *)
(***************************************************************************)
\* C24: in every state reachable by append, prepend, insert, remove, pop,
\* shift, reverse and set calls, head is NULL exactly when the length is 0 and
\* tail is NULL exactly when the length is 0.
C24_Emptiness ==
    /\ lstatus \notin {"undefined", "hung"}
    /\ lstatus = "ok" => /\ (list.head = NULL) <=> (list_len(list) = 0)
                         /\ (list.tail = NULL) <=> (list_len(list) = 0)

\* C25: after any sequence of append, prepend, insert and remove calls the
\* walk along next from head and the walk along prev from tail each visit
\* exactly len nodes, one is the reverse of the other, and every node is the
\* next of its prev and the prev of its next where those exist.
C25_Links ==
    /\ lstatus \notin {"undefined", "hung"}
    /\ lstatus = "ok" =>
          LET fwd == WalkNext(nodes, nlive, list.head, <<>>)
              bwd == WalkPrev(nodes, nlive, list.tail, <<>>)
          IN /\ Len(fwd) = list_len(list)
             /\ Len(bwd) = list_len(list)
             /\ bwd = Reverse(fwd)
             /\ \A i \in 1..Len(fwd) :
                   /\ fwd[i] \in nlive
                   /\ nodes[fwd[i]].prev # NULL
                         => /\ nodes[fwd[i]].prev \in nlive
                            /\ nodes[nodes[fwd[i]].prev].next = fwd[i]
                   /\ nodes[fwd[i]].next # NULL
                         => /\ nodes[fwd[i]].next \in nlive
                            /\ nodes[nodes[fwd[i]].next].prev = fwd[i]

\* C26: after every step of a run of append, prepend, insert, shift, pop,
\* remove, set and reverse calls on a new list, list_len is the length of the
\* reference sequence and list_get(i) is its i-th element for every i below
\* that length.
C26_Reference ==
    /\ lstatus \notin {"undefined", "hung"}
    /\ lstatus = "ok" => /\ list_len(list) = Len(lref)
                         /\ \A i \in 0..(Len(lref) - 1) : LGet(i) = lref[i + 1]

\* C27: reverse applied twice to a non-empty list leaves head, tail and the
\* prev, next and data of every node as they were before the two calls.
C27_ReverseTwice ==
    (lstatus = "ok" /\ list_len(list) > 0)
        => LET r1 == list_reverse(list, nodes, nlive)
               r2 == list_reverse(r1.l, r1.h, r1.lv)
           IN /\ r1.st = "ok"
              /\ r2.st = "ok"
              /\ r2.l = list
              /\ r2.h = nodes

\* C28: pop and shift return NULL and change nothing on a list of length 0;
\* on a longer list pop returns the payload of the last element and shift
\* that of the first, the length drops by exactly 1 and the remaining
\* elements keep their order.
C28_PopShift ==
    [][(llast'.op \in {"pop", "shift"})
        => /\ lstatus' = "ok"
           /\ IF list_len(list) = 0
              THEN llast'.ret = NULL /\ list' = list /\ nodes' = nodes
              ELSE /\ llast'.ret = IF llast'.op = "pop"
                                   THEN LGet(list_len(list) - 1) ELSE LGet(0)
                   /\ list_len(list') = list_len(list) - 1
                   /\ \A i \in 0..(list_len(list) - 2) :
                         list_get(list', nodes', nlive', i) =
                             IF llast'.op = "pop" THEN LGet(i) ELSE LGet(i + 1)]_vars

\* C29: remove with an index below the length returns the payload at that
\* index, reduces the length by exactly 1, keeps the order of the other
\* elements, and makes the old second node the head when the index is 0 and
\* the old last-but-one node the tail when the index is len - 1; with an
\* index of at least the length it returns NULL and changes nothing.
C29_Remove ==
    [][(llast'.op = "remove")
        => /\ lstatus' = "ok"
           /\ IF llast'.arg < list_len(list)
              THEN /\ llast'.ret = LGet(llast'.arg)
                   /\ list_len(list') = list_len(list) - 1
                   /\ \A i \in 0..(list_len(list) - 2) :
                         list_get(list', nodes', nlive', i) =
                             IF i < llast'.arg THEN LGet(i) ELSE LGet(i + 1)
                   /\ llast'.arg = 0
                         => list'.head = NodeAt(nodes, nlive, list.head, 1)
                   /\ llast'.arg = list_len(list) - 1
                         => list'.tail = IF list_len(list) = 1 THEN NULL
                                         ELSE NodeAt(nodes, nlive, list.head,
                                                     list_len(list) - 2)
              ELSE llast'.ret = NULL /\ list' = list /\ nodes' = nodes
                   /\ nlive' = nlive]_vars

(***************************************************************************)
(* Claims about the first insert                                           *)
(***************************************************************************)
\* C30 as claimed: after the first insert into an uninitialized map (capacity
\* 0, no bucket array) returns success, hashmap_capacity reports 1 and the
\* count is 1.
C30_FirstInsert_Orig ==
    [][(last'.op = "insert" /\ map.isNull /\ last'.ret = true)
        => /\ status' = "ok"
           /\ hashmap_capacity(map') = 1
           /\ hashmap_len(map') = 1]_vars

\* C30 as amended: an insert into an uninitialized map that returns success
\* leaves a live map with capacity 2 and count 1; one that fails leaves the
\* count 0 and the capacity 0, 1 or 2.
C30_FirstInsert ==
    [][(last'.op = "insert" /\ map.isNull)
        => /\ status' = "ok"
           /\ hashmap_capacity(map) = 0
           /\ last'.ret \in {true, false}
           /\ last'.ret = true => /\ ~map'.isNull
                                  /\ hashmap_capacity(map') = 2
                                  /\ hashmap_len(map') = 1
           /\ last'.ret = false => /\ hashmap_capacity(map') \in {0, 1, 2}
                                   /\ hashmap_len(map') = 0]_vars

\* the first call on a new map was an insert and it succeeded
C30_Witness ==
    /\ status = "ok"
    /\ calls = 1
    /\ last.op = "insert"
    /\ last.ret = true
    /\ ~map.isNull
    /\ hashmap_capacity(map) = 2
    /\ hashmap_len(map) = 1

(***************************************************************************)
(* Claims about growth, placement, iteration order and failures            *)
(***************************************************************************)
\* C31: an insert into a live map that returns true doubles the capacity
\* exactly when count + 1 > 0.8 * capacity holds at the time of the call and
\* leaves the capacity unchanged otherwise, whether the key is new or is
\* already present and only its value is overwritten.
C31_Growth ==
    [][(last'.op = "insert" /\ ~map.isNull /\ last'.ret = true)
        => hashmap_capacity(map') =
              IF 5 * (hashmap_len(map) + 1) > 4 * hashmap_capacity(map)
              THEN 2 * hashmap_capacity(map)
              ELSE hashmap_capacity(map)]_vars

\* after reserve(map, 3) and the inserts of two keys, the insert of a key the
\* map holds has doubled the capacity to 6 and left the count at 2
C31_Witness ==
    /\ status = "ok"
    /\ calls = 4
    /\ last.op = "insert"
    /\ last.ret = true
    /\ hashmap_capacity(map) = 6
    /\ hashmap_len(map) = 2

\* the cells the chain of bucket i links
Chain(m, h, i) == ReachFrom(h, {Bucket(m, i)} \ {NULL}, {})

\* C32: in every state reached by insert, remove and reserve calls in which
\* the capacity is greater than 0, every cell that the chain of a bucket i
\* links is an allocated entry whose key hashes to i modulo the capacity.
C32_Placement ==
    (status = "ok" /\ hashmap_capacity(map) > 0)
        => \A i \in 0..(hashmap_capacity(map) - 1) :
              \A c \in Chain(map, heap, i) :
                 /\ c \in live
                 /\ hash(heap[c].key) % hashmap_capacity(map) = i

\* The calls of Next with payloads that tell the order of insertion: the
\* insert of a key that contains does not report (where contains is undefined
\* behaviour, so is the insert) stores the ordinal of the call, the insert of
\* a key the map holds stores the payload the key has already (C33)
StampedNext ==
    \/ \E key \in KeyHandles :
          /\ hashmap_contains(map, heap, live, key) # true
          /\ Insert(key, calls + 1)
    \/ \E key \in KeyHandles :
          /\ hashmap_contains(map, heap, live, key) = true
          /\ Insert(key, hashmap_get(map, heap, live, key))
    \/ \E key \in KeyHandles : Remove(key)
    \/ \E capacity \in 0..MaxCap : Reserve(capacity)
    \/ Drop

SpecStamped == Init /\ [][StampedNext]_vars

\* the calls of the callback that iterate makes for bucket i, in order
BucketCalls(i) == IterChain(heap, live, Bucket(map, i), {}).calls

\* the position of key k in a sequence of callback calls, 0 if it has none
PosOf(calls_, k) ==
    IF \E j \in 1..Len(calls_) : calls_[j].key = k
    THEN CHOOSE j \in 1..Len(calls_) : calls_[j].key = k
    ELSE 0

\* the calls made for the buckets 0 .. n - 1, up to and including the first
\* bucket whose walk does not end
RECURSIVE CallsUpTo(_)
CallsUpTo(n) ==
    IF n = 0 THEN <<>>
    ELSE IF \E i \in 0..(n - 2) :
               IterChain(heap, live, Bucket(map, i), {}).st # "ok"
    THEN CallsUpTo(n - 1)
    ELSE CallsUpTo(n - 1) \o BucketCalls(n - 1)

\* iterate visits the buckets in increasing index: its calls are those for
\* the chain of bucket 0, then those for the chain of bucket 1, and so on
BucketsAscend ==
    \A it \in {Iter} : it.calls = CallsUpTo(hashmap_capacity(map))

\* every linked entry is allocated and is linked once: one bucket head or one
\* next pointer points to it
WellLinked ==
    /\ Linked(map, heap) \subseteq live
    /\ \A c \in Linked(map, heap) :
          Cardinality({i \in 1..Len(map.items) : map.items[i] = c})
              + Cardinality({d \in Linked(map, heap) : heap[d].next = c}) = 1

C34_Shrink ==
    [][(\/ vlast'.op = "pop" /\ vector_len(vec) > 0
        \/ vlast'.op = "remove" /\ vlast'.arg < vector_len(vec))
        => /\ vstatus' = "ok"
           /\ vector_capacity(vec') =
                 IF /\ vector_len(vec) - 1 < vector_capacity(vec) \div 2
                    /\ vector_capacity(vec) > 1
                 THEN vector_len(vec) - 1
                 ELSE vector_capacity(vec)]_vars

\* One turn of the loop  while (!vector_is_empty(v)) vector_pop(v);  the
\* loop makes as many calls as it takes, so the turn is not counted in vcalls
DrainPop ==
    /\ vstatus = "ok"
    /\ vector_is_empty(vec) = false
    /\ LET o == vector_pop(vec)
       IN /\ vstatus' = o.st
          /\ vec' = IF o.st = "ok" THEN o.v ELSE NewVec
          /\ vlast' = [op |-> "pop", arg |-> 0, data |-> NULL, other |-> NoOther,
                       self |-> FALSE, ra |-> "none", ret |-> o.ret]
    /\ UNCHANGED <<vcalls, vref, hvars, lvars>>

\* Appends to a new vector, then the draining loop: no append once the loop
\* has started (C35)
DrainNext ==
    \/ /\ vlast.op # "pop"
       /\ \E data \in Data : VAppend(data)
    \/ DrainPop

\* the loop goes on while the vector is not empty
SpecDrain == Init /\ [][DrainNext]_vars /\ WF_vars(DrainPop)

\* C35: once the draining loop has started on a vector built by appends, it
\* reaches a state in which the vector is empty.
C35_Drain ==
    (vlast.op = "pop") ~> (vstatus = "ok" /\ vector_is_empty(vec) = true)

\* C36: in every state reached by insert, remove and reserve calls the bucket
\* array is non-NULL only when the capacity is greater than 0, so that no
\* call computes hash(key) % 0.
C36_NoModZero ==
    (status = "ok" /\ ~map.isNull) => hashmap_capacity(map) > 0

\* the structural invariants of the table: every chain links allocated
\* entries of its own bucket, no key is linked twice, and the count is the
\* number of linked entries
Structure(m, h, lv) ==
    /\ hashmap_iter(m, h, lv).st = "ok"
    /\ \A i \in 0..(hashmap_capacity(m) - 1) :
          \A c \in Chain(m, h, i) : hash(h[c].key) % hashmap_capacity(m) = i
    /\ \A i, j \in 0..(hashmap_capacity(m) - 1) :
          \A c \in Chain(m, h, i) : \A d \in Chain(m, h, j) :
             c # d => ~cmp(h[c].key, h[d].key)
    /\ hashmap_len(m) = Cardinality(Linked(m, h))

\* C37: an insert that returns false leaves the count and what get, contains
\* and iterate report as they were before the call, and the structural
\* invariants that held before it hold after it; the capacity may have
\* changed.
C37_FailedInsert ==
    [][(last'.op = "insert" /\ last'.ret = false)
        => /\ status' = "ok"
           /\ hashmap_len(map') = hashmap_len(map)
           /\ \A k \in KeyHandles :
                 /\ Get(k)' = Get(k)
                 /\ Contains(k)' = Contains(k)
           /\ Iter'.st = Iter.st
           /\ IterPairs' = IterPairs
           /\ Len(Iter.calls)' = Len(Iter.calls)
           /\ Structure(map, heap, live) => Structure(map', heap', live')]_vars
====
